---- MODULE Spec2Model ----
(***************************************************************************)
(* Model of random-city-weather (src/main.go): main loads the country      *)
(* list once, then fetchWeather runs a select loop over a 5-second ticker  *)
(* and the interrupt context; each tick picks a random capital, geocodes   *)
(* it with GetCoordinates and asks the weather client for the current      *)
(* temperature.                                                            *)
(*                                                                         *)
(* Values that the program reads from the network (the three providers'   *)
(* responses) are inputs drawn from small sets.  Floating point values are *)
(* kept as scaled integers: coordinates in thousandths of a degree,        *)
(* temperatures in hundredths of a degree.                                 *)
(***************************************************************************)
EXTENDS Integers, Sequences, FiniteSets, TLC

VARIABLES
    pc,               \* where the single goroutine is
    loadResp,         \* the countries provider's response (main.go:46)
    countries,        \* capitals handed to fetchWeather (main.go:36,41)
    loadErr,          \* err of loadRandomCountriesAndCapitals
    decodeAttempted,  \* json.NewDecoder(...).Decode was invoked (main.go:59)
    exitCode,         \* -1 while running, else the process exit status
    cancelled,        \* ctx.Done() is closed (interrupt received)
    tickPending,      \* ticker.C (capacity 1) holds a tick
    ticks,            \* number of ticks started
    ticksAfterCancel, \* ticks started while ctx.Done() was already closed
    randomIndex,      \* rand.Intn result of the current tick
    city,             \* getRandomCity result of the current tick
    geoResp,          \* geocoding response of the current tick
    coordinates,      \* GetCoordinates result of the current tick
    geoErr,           \* GetCoordinates error of the current tick
    weatherCalled,    \* getWeather was called in the current tick
    weatherErr,       \* getWeather error of the current tick
    temperature,      \* weather.Temperature of the current tick
    printed,          \* lines written to stdout since the current tick
                      \* began (before the first tick: since process start)
    active,           \* ticks in progress
    outstanding,      \* Geocoder / Weather Client calls not yet returned
    reqCtx            \* context handed to the outstanding collaborator call

vars == <<pc, loadResp, countries, loadErr, decodeAttempted, exitCode,
          cancelled, tickPending, ticks, ticksAfterCancel, randomIndex, city,
          geoResp, coordinates, geoErr, weatherCalled, weatherErr, temperature,
          printed, active, outstanding, reqCtx>>

----------------------------------------------------------------------------
(* Bounds of the model. *)

MaxCountries == 2   \* longest country list the provider returns
MaxCoords == 2      \* longest coordinate array the geocoder returns
MaxTicks == 3       \* ticks started per run

(* Program constants. *)

StatusOK == 200     \* http.StatusOK
ExitLoadFailure == 1
ExitPanic == 2      \* exit status of a Go program that panics

----------------------------------------------------------------------------
(* Data types. *)

\* type Country: Name.Common and Capital.
Country ==
    { [common |-> "Testland",     capital |-> <<"Testville">>],
      [common |-> "Antarctica",   capital |-> <<>>],
      [common |-> "South Africa", capital |-> <<"Cape Town", "Pretoria">>] }

SeqUpTo(S, n) == UNION { [1..k -> S] : k \in 0..n }

\* type Coordinates: zero value and values decoded from the geocoder.
ZeroCoordinates == [lat |-> 0, lon |-> 0]

\* Raw JSON objects {"lat":"..","lon":".."} of a geocoder response.
RawCoordinates ==
    { [lat |-> "52.52", lon |-> "13.405"],
      [lat |-> "0",     lon |-> "0"],
      [lat |-> "abc",   lon |-> "13.405"],
      [lat |-> "48.85", lon |-> "2.35"] }

\* The `json:",string"` option: the quoted text must be a float literal.
IsFloatLiteral(s) == s \in {"52.52", "13.405", "0", "48.85", "2.35"}

ParseFloat(s) ==
    CASE s = "52.52"  -> 52520
      [] s = "13.405" -> 13405
      [] s = "48.85"  -> 48850
      [] s = "2.35"   -> 2350
      [] s = "0"      -> 0
      [] OTHER        -> 0

DecodeCoordinates(raw) == [lat |-> ParseFloat(raw.lat), lon |-> ParseFloat(raw.lon)]

\* A line without a number in it.
NoValue == [neg |-> FALSE, tenths |-> 0]

\* Lines on stdout; temp is the formatted temperature (sign, tenths).
Line(kind, text, who, value) == [kind |-> kind, text |-> text, city |-> who, temp |-> value]

NoResp == [sendErr |-> "unset", readErr |-> FALSE, wellFormed |-> FALSE, body |-> <<>>]

----------------------------------------------------------------------------
(* Country Loader. *)

\* What http.Get("https://restcountries.com/v3.1/all") can yield.
LoaderResponses ==
    { [sendErr |-> TRUE, status |-> 0, wellFormed |-> FALSE, list |-> <<>>] }
    \cup { [sendErr |-> FALSE, status |-> s, wellFormed |-> FALSE, list |-> <<>>] :
             s \in {StatusOK, 404} }
    \cup { [sendErr |-> FALSE, status |-> s, wellFormed |-> TRUE, list |-> l] :
             s \in {StatusOK, 404}, l \in SeqUpTo(Country, MaxCountries) }

\* A loader that decodes the body before it looks at the status code.
loadDecodeBeforeStatus(resp) ==
    IF resp.sendErr
    THEN [countries |-> <<>>, err |-> "fetch", decoded |-> FALSE]
    ELSE IF ~resp.wellFormed
    THEN [countries |-> <<>>, err |-> "decode", decoded |-> TRUE]
    ELSE IF resp.status # StatusOK
    THEN [countries |-> <<>>, err |-> "status", decoded |-> TRUE]
    ELSE [countries |-> resp.list, err |-> "none", decoded |-> TRUE]

loadRandomCountriesAndCapitals(resp) ==
    IF resp.sendErr
    THEN [countries |-> <<>>, err |-> "fetch", decoded |-> FALSE]
    ELSE IF resp.status # StatusOK
    THEN [countries |-> <<>>, err |-> "status", decoded |-> FALSE]
    ELSE IF ~resp.wellFormed
    THEN [countries |-> <<>>, err |-> "decode", decoded |-> TRUE]
    ELSE [countries |-> resp.list, err |-> "none", decoded |-> TRUE]

----------------------------------------------------------------------------
(* getRandomCity. *)

\* rand.Intn(n) for n > 0: some value of [0, n).  rand.Intn(0) panics.
RandIntn(n) == 0 .. (n - 1)

\* A getRandomCity that reads the last capital instead of the first.
getRandomCityLast(list, index) ==
    LET capitals == list[index + 1].capital
    IN  IF Len(capitals) = 0 THEN "Unknown" ELSE capitals[Len(capitals)]

\* The body of getRandomCity after randomIndex is drawn (slices are 0-based).
getRandomCity(list, index) ==
    LET capitals == list[index + 1].capital
    IN  IF Len(capitals) = 0 THEN "Unknown" ELSE capitals[1]

----------------------------------------------------------------------------
(* Contexts of the outbound requests of a tick. *)

\* http.Get(endpointURL): the ctx parameter of GetCoordinates is unused and
\* the request carries context.Background().
GeoRequestCtx == "background"

\* c.CurrentWeather(ctx, loc, &opts): the caller's ctx is handed to the call.
WeatherRequestCtx == "ctx"

----------------------------------------------------------------------------
(* Geocoder. *)

GeoCompleted ==
    { [sendErr |-> "none", readErr |-> TRUE, wellFormed |-> FALSE, body |-> <<>>],
      [sendErr |-> "none", readErr |-> FALSE, wellFormed |-> FALSE, body |-> <<>>] }
    \cup { [sendErr |-> "none", readErr |-> FALSE, wellFormed |-> TRUE, body |-> b] :
             b \in SeqUpTo(RawCoordinates, MaxCoords) }

\* http.Get returns an error.
GeoFailed ==
    { [sendErr |-> "net", readErr |-> FALSE, wellFormed |-> FALSE, body |-> <<>>] }

\* What the geocoding request can yield.
GeoResponses == GeoFailed \cup GeoCompleted

\* json.Unmarshal(body, &coordinates) succeeds.
Decodes(resp) ==
    /\ resp.wellFormed
    /\ \A k \in 1..Len(resp.body) :
          IsFloatLiteral(resp.body[k].lat) /\ IsFloatLiteral(resp.body[k].lon)

\* A GetCoordinates without the len(coordinates) == 0 check: the zero value
\* is returned for an empty array.
GetCoordinatesNoEmptyCheck(resp) ==
    IF resp.sendErr # "none"
    THEN [coord |-> ZeroCoordinates, err |-> resp.sendErr]
    ELSE IF resp.readErr
    THEN [coord |-> ZeroCoordinates, err |-> "read"]
    ELSE IF ~Decodes(resp)
    THEN [coord |-> ZeroCoordinates, err |-> "decode"]
    ELSE IF Len(resp.body) = 0
    THEN [coord |-> ZeroCoordinates, err |-> "none"]
    ELSE [coord |-> DecodeCoordinates(resp.body[1]), err |-> "none"]

GetCoordinates(resp) ==
    IF resp.sendErr # "none"
    THEN [coord |-> ZeroCoordinates, err |-> resp.sendErr]
    ELSE IF resp.readErr
    THEN [coord |-> ZeroCoordinates, err |-> "read"]
    ELSE IF ~Decodes(resp)
    THEN [coord |-> ZeroCoordinates, err |-> "decode"]
    ELSE IF Len(resp.body) = 0
    THEN [coord |-> ZeroCoordinates, err |-> "notfound"]
    ELSE [coord |-> DecodeCoordinates(resp.body[1]), err |-> "none"]

\* url.Values.Encode escapes the q value: a space becomes "+"; letters are kept.
QueryEscape(s) ==
    CASE s = "Cape Town" -> "Cape+Town"
      [] OTHER           -> s

\* err.Error() of a GetCoordinates failure.  A failed http.Get is a *url.Error,
\* `Get "<endpointURL>": <cause>`, which quotes the URL and with it the escaped
\* city; the not-found text names the city as it is; the read and decode
\* errors do not name it.
GeoErrorLine(err, who) ==
    Line("error", err,
         IF err = "notfound" THEN who
         ELSE IF err = "net" THEN QueryEscape(who)
         ELSE "",
         NoValue)

----------------------------------------------------------------------------
(* Weather Client. *)

\* weather.Temperature values, in hundredths of a degree.
Temperatures == {2346, -512, 0, 25, 75, 2345, -15, -3}

\* What c.CurrentWeather can yield: a current weather, or the client's error.
\* fetchWeather only tests the error against nil, so one error value stands
\* for all of them.
WeatherResponses ==
    { [err |-> "provider", temperature |-> 0] }
    \cup { [err |-> "none", temperature |-> t] : t \in Temperatures }

\* getWeather returns the provider's answer or its error unchanged.
getWeather(resp) == resp

\* Significand width of a float64.
MantissaBits == 53

RECURSIVE BitLen(_)
BitLen(i) == IF i = 0 THEN 0 ELSE 1 + BitLen(i \div 2)

\* The fraction r/100 after its leading zero bits and its first one bit.
RECURSIVE SkipToFirstOne(_)
SkipToFirstOne(r) == IF 2 * r >= 100 THEN 2 * r - 100 ELSE SkipToFirstOne(2 * r)

\* n further binary digits of the fraction r/100: what is left, and the last digit.
RECURSIVE FracBits(_, _, _)
FracBits(r, n, last) ==
    IF n = 0
    THEN [rem |-> r, last |-> last]
    ELSE FracBits((2 * r) % 100, n - 1, IF 2 * r >= 100 THEN 1 ELSE 0)

\* weather.Temperature is a float64: the double nearest to m/100 (m >= 0,
\* ties to even) is above (1), below (-1) or equal to (0) the decimal m/100.
StoredVsDecimal(m) ==
    LET whole == m \div 100
        frac  == m % 100
        cut   == IF frac = 0 THEN [rem |-> 0, last |-> 0]
                 ELSE IF whole > 0
                 THEN FracBits(frac, MantissaBits - BitLen(whole), whole % 2)
                 ELSE FracBits(SkipToFirstOne(frac), MantissaBits - 1, 1)
    IN  IF cut.rem = 0 THEN 0
        ELSE IF cut.rem < 50 THEN -1
        ELSE IF cut.rem > 50 THEN 1
        ELSE IF cut.last = 1 THEN 1 ELSE -1

\* "%.1f" of the stored double, t in hundredths: the sign is kept (a negative
\* value that rounds to zero prints "-0.0"), and the magnitude is the decimal
\* with one digit nearest to the stored binary value, an exact tie going to
\* the even digit.
FormatOneDecimal(t) ==
    LET m    == IF t < 0 THEN -t ELSE t
        down == m \div 10
        dir  == StoredVsDecimal(m)
        up   == IF m % 10 # 5 THEN m % 10 > 5
                ELSE dir = 1 \/ (dir = 0 /\ down % 2 = 1)
    IN  [neg |-> t < 0, tenths |-> IF up THEN down + 1 ELSE down]

TemperatureLine(who, t) == Line("temperature", "the Temperature in", who, FormatOneDecimal(t))

----------------------------------------------------------------------------
(* The Poller's control flow. *)

\* A loop that starts a tick without waiting for the previous one.
SelectWaitConcurrent == pc \in {"wait", "geocode", "weather"}

\* The goroutine is blocked in the select of fetchWeather.
SelectWait == pc = "wait"

\* A handler without the `continue` after a geocoding failure.
AfterGeocodeNoContinue(err) == "weather"

\* if err != nil { Println; continue } else getWeather.
AfterGeocode(err) == IF err # "none" THEN "wait" ELSE "weather"

\* if err == nil { Printf(...) }
WeatherOutput(err, who, t) ==
    IF err = "none" THEN <<TemperatureLine(who, t)>> ELSE <<>>

PollerPcs == {"wait", "geocode", "weather"}

----------------------------------------------------------------------------
Init ==
    /\ pc = "main"
    /\ loadResp = [sendErr |-> FALSE, status |-> 0, wellFormed |-> FALSE, list |-> <<>>]
    /\ countries = <<>>
    /\ loadErr = "none"
    /\ decodeAttempted = FALSE
    /\ exitCode = -1
    /\ cancelled = FALSE
    /\ tickPending = FALSE
    /\ ticks = 0
    /\ ticksAfterCancel = 0
    /\ randomIndex = 0
    /\ city = ""
    /\ geoResp = NoResp
    /\ coordinates = ZeroCoordinates
    /\ geoErr = "none"
    /\ weatherCalled = FALSE
    /\ weatherErr = "none"
    /\ temperature = 0
    /\ printed = <<>>
    /\ active = 0
    /\ outstanding = 0
    /\ reqCtx = "none"

tickVars == <<randomIndex, city, geoResp, coordinates, geoErr, weatherCalled,
              weatherErr, temperature>>
loadVars == <<loadResp, countries, loadErr, decodeAttempted>>
callVars == <<active, outstanding, reqCtx>>

\* main up to the call of loadRandomCountriesAndCapitals.
StartLoad ==
    /\ pc = "main"
    /\ pc' = "loading"
    /\ printed' = <<Line("info", "Loading random capitals...", "", NoValue)>>
    /\ UNCHANGED <<loadVars, exitCode, cancelled, tickPending, ticks,
                   ticksAfterCancel, tickVars, callVars>>

\* The loader returns; main exits with 1 or enters fetchWeather.
LoadReturn ==
    /\ pc = "loading"
    /\ \E resp \in LoaderResponses :
         LET r == loadRandomCountriesAndCapitals(resp)
         IN  /\ loadResp' = resp
             /\ countries' = r.countries
             /\ loadErr' = r.err
             /\ decodeAttempted' = r.decoded
             /\ IF r.err # "none"
                THEN /\ printed' = Append(printed, Line("error", "Error loading cities", r.err, NoValue))
                     /\ exitCode' = ExitLoadFailure
                     /\ pc' = "exit"
                ELSE /\ pc' = "wait"
                     /\ UNCHANGED <<printed, exitCode>>
    /\ UNCHANGED <<cancelled, tickPending, ticks, ticksAfterCancel, tickVars, callVars>>

\* os.Interrupt arrives: signal.NotifyContext closes ctx.Done().
Cancel ==
    /\ pc \in {"main", "loading"} \cup PollerPcs
    /\ ~cancelled
    /\ cancelled' = TRUE
    /\ UNCHANGED <<pc, loadVars, exitCode, tickPending, ticks, ticksAfterCancel,
                   tickVars, printed, callVars>>

\* The ticker fires; a tick is dropped when ticker.C is full.
TimerFire ==
    /\ pc \in PollerPcs
    /\ tickPending' = TRUE
    /\ UNCHANGED <<pc, loadVars, exitCode, cancelled, ticks, ticksAfterCancel,
                   tickVars, printed, callVars>>

\* select takes `case <-ticker.C`: getRandomCity, then the geocoding request
\* is sent.  With both cases ready select chooses either.
TickStart ==
    /\ SelectWait
    /\ tickPending
    /\ ticks < MaxTicks
    /\ tickPending' = FALSE
    /\ ticks' = ticks + 1
    /\ ticksAfterCancel' = IF cancelled THEN ticksAfterCancel + 1 ELSE ticksAfterCancel
    /\ geoResp' = NoResp
    /\ coordinates' = ZeroCoordinates
    /\ geoErr' = "none"
    /\ weatherCalled' = FALSE
    /\ weatherErr' = "none"
    /\ temperature' = 0
    /\ printed' = <<>>
    /\ IF Len(countries) = 0
       THEN \* rand.Intn(0) panics
            /\ pc' = "panic"
            /\ exitCode' = ExitPanic
            /\ UNCHANGED <<randomIndex, city, callVars>>
       ELSE \E i \in RandIntn(Len(countries)) :
            /\ randomIndex' = i
            /\ city' = getRandomCity(countries, i)
            /\ pc' = "geocode"
            /\ active' = active + 1
            /\ outstanding' = outstanding + 1
            /\ reqCtx' = GeoRequestCtx
            /\ UNCHANGED exitCode
    /\ UNCHANGED <<loadVars, cancelled>>

\* GetCoordinates returns: the error is printed and the tick abandoned, or
\* getWeather is called.
GeoReturn ==
    /\ pc = "geocode"
    /\ \E resp \in GeoResponses :
         LET r == GetCoordinates(resp)
             next == AfterGeocode(r.err)
         IN  /\ geoResp' = resp
             /\ coordinates' = r.coord
             /\ geoErr' = r.err
             /\ printed' = IF r.err # "none"
                           THEN Append(printed, GeoErrorLine(r.err, city))
                           ELSE printed
             /\ pc' = next
             /\ IF next = "weather"
                THEN /\ weatherCalled' = TRUE
                     /\ reqCtx' = WeatherRequestCtx
                     /\ UNCHANGED <<active, outstanding>>
                ELSE /\ active' = active - 1
                     /\ outstanding' = outstanding - 1
                     /\ reqCtx' = "none"
                     /\ UNCHANGED weatherCalled
    /\ UNCHANGED <<loadVars, exitCode, cancelled, tickPending, ticks,
                   ticksAfterCancel, randomIndex, city, weatherErr, temperature>>

\* getWeather returns: the temperature line is printed on success.
WeatherReturn ==
    /\ pc = "weather"
    /\ \E resp \in WeatherResponses :
         LET r == getWeather(resp)
         IN  /\ weatherErr' = r.err
             /\ temperature' = r.temperature
             /\ printed' = printed \o WeatherOutput(r.err, city, r.temperature)
    /\ pc' = "wait"
    /\ active' = active - 1
    /\ outstanding' = outstanding - 1
    /\ reqCtx' = "none"
    /\ UNCHANGED <<loadVars, exitCode, cancelled, tickPending, ticks,
                   ticksAfterCancel, randomIndex, city, geoResp, coordinates,
                   geoErr, weatherCalled>>

\* select takes `case <-ctx.Done()`: fetchWeather returns and main ends.
Stop ==
    /\ SelectWait
    /\ cancelled
    /\ pc' = "stopped"
    /\ exitCode' = 0
    /\ UNCHANGED <<loadVars, cancelled, tickPending, ticks, ticksAfterCancel,
                   tickVars, printed, callVars>>

Next ==
    \/ StartLoad
    \/ LoadReturn
    \/ Cancel
    \/ TimerFire
    \/ TickStart
    \/ GeoReturn
    \/ WeatherReturn
    \/ Stop

Spec == Init /\ [][Next]_vars

\* Every collaborator call returns, and the select is fair to ctx.Done().
FairSpec ==
    /\ Spec
    /\ WF_vars(StartLoad)
    /\ WF_vars(LoadReturn)
    /\ WF_vars(GeoReturn)
    /\ WF_vars(WeatherReturn)
    /\ SF_vars(Stop)

----------------------------------------------------------------------------
(* Properties. *)

\* Every capital name of the loaded list.
AllCapitals ==
    UNION { { countries[i].capital[k] : k \in 1..Len(countries[i].capital) } :
            i \in 1..Len(countries) }

\* A tick has selected a city (the list was not empty).
CitySelected == ticks > 0 /\ pc # "panic"

\* The current tick is over.
TickOver == ticks > 0 /\ pc \in {"wait", "stopped"}

\* C1: for a non-empty country list getRandomCity draws an index inside the
\* list and returns that country's first capital, or "Unknown" when the
\* country has no capital; it returns nothing else.
C1_RandomCity ==
    (CitySelected /\ Len(countries) > 0) =>
        /\ randomIndex \in 0 .. (Len(countries) - 1)
        /\ LET capitals == countries[randomIndex + 1].capital
           IN  /\ (capitals = <<>>) => (city = "Unknown")
               /\ (capitals # <<>>) => (city = Head(capitals))
        /\ city \in AllCapitals \cup {"Unknown"}

C1_Witness ==
    /\ CitySelected
    /\ Len(countries) = 2
    /\ randomIndex = 1
    /\ countries[2].common = "South Africa"
    /\ city = "Cape Town"

\* C2: whenever the Poller is running the loaded country list is non-empty,
\* so no tick selects a city from an empty list.
C2_NonEmptyWhileRunning ==
    /\ (pc \in PollerPcs) => (Len(countries) > 0)
    /\ pc # "panic"

\* C3: after the cancellation signal at most one more tick starts (the one
\* whose timer fire was already pending); no further tick starts after it.
C3_AtMostOneTickAfterCancel == ticksAfterCancel <= 1

\* C4: a tick prints the line its outcome prescribes and never more than one:
\* the error text and no weather call when geocoding fails, nothing when only
\* the weather call fails, the temperature line of the selected city when
\* both succeed.
C4_TickOutput ==
    CitySelected =>
        /\ Len(printed) <= 1
        /\ (geoErr # "none") =>
              /\ Len(printed) = 1
              /\ printed[1].kind = "error"
              /\ printed[1].text = geoErr
              /\ printed[1].temp = NoValue
              /\ (geoErr = "notfound") => (printed[1].city = city)
              /\ ~weatherCalled
        /\ (TickOver /\ geoErr = "none" /\ weatherErr # "none") => (printed = <<>>)
        /\ (TickOver /\ geoErr = "none" /\ weatherErr = "none") =>
              /\ weatherCalled
              /\ Len(printed) = 1
              /\ printed[1].kind = "temperature"
              /\ printed[1].city = city
              /\ printed[1].temp.neg = (temperature < 0)
              /\ LET shown == IF printed[1].temp.neg
                               THEN -printed[1].temp.tenths
                               ELSE printed[1].temp.tenths
                 IN  10 * shown - temperature \in -5 .. 5

C4_Witness ==
    /\ TickOver
    /\ ticks = 2
    /\ geoErr = "none"
    /\ weatherErr = "provider"
    /\ printed = <<>>

\* C5: the only error that ends the process is a loader failure at startup,
\* with exit code 1 and before any tick; a Geocoder or Weather Client failure
\* leaves the Poller running.
C5_OnlyLoaderFailureTerminates ==
    /\ (exitCode \notin {-1, 0}) =>
          (loadErr # "none" /\ exitCode = ExitLoadFailure /\ ticks = 0)
    /\ (ticks > 0 /\ (geoErr # "none" \/ weatherErr # "none")) =>
          (pc \in PollerPcs \cup {"stopped"})

\* C6: on a status other than 200 the loader returns an error and no list,
\* and the JSON decoder is never invoked.
C6_Non200 ==
    (pc \notin {"main", "loading"} /\ ~loadResp.sendErr /\ loadResp.status # StatusOK) =>
        /\ loadErr = "status"
        /\ countries = <<>>
        /\ ~decodeAttempted

C6_Witness ==
    /\ pc = "exit"
    /\ ~loadResp.sendErr
    /\ loadResp.status = 404
    /\ loadResp.wellFormed
    /\ Len(loadResp.list) = 2

\* C7: for a response that decodes, GetCoordinates fails with the not-found
\* error on an empty array and otherwise returns the first element, no error.
C7_FirstOrNotFound ==
    (geoResp.sendErr = "none" /\ ~geoResp.readErr /\ Decodes(geoResp)) =>
        IF Len(geoResp.body) = 0
        THEN geoErr = "notfound"
        ELSE /\ geoErr = "none"
             /\ coordinates = [lat |-> ParseFloat(geoResp.body[1].lat),
                               lon |-> ParseFloat(geoResp.body[1].lon)]

C7_Witness ==
    /\ geoResp.sendErr = "none"
    /\ ~geoResp.readErr
    /\ Decodes(geoResp)
    /\ Len(geoResp.body) = 0
    /\ geoErr = "notfound"
    /\ pc = "wait"

\* C8: ticks never overlap: at most one tick is in progress and at most one
\* collaborator call is outstanding, and the loop is back at its wait only
\* when the tick has finished, whatever timer fires elapse meanwhile.
C8_NoOverlap ==
    /\ active <= 1
    /\ outstanding <= 1
    /\ (pc = "wait") => (active = 0 /\ outstanding = 0)
    /\ (pc \in {"geocode", "weather"}) => (active = 1 /\ outstanding = 1)

C8_Witness ==
    /\ pc = "weather"
    /\ tickPending
    /\ ticks = 2
    /\ outstanding = 1

\* C9: a cancellation signal is observed only at the loop's wait and is not
\* propagated into a tick's outbound calls: no Geocoder or Weather Client
\* call that is in flight holds the context once it has been cancelled.
C9_NoPropagation ==
    (cancelled /\ pc \in {"geocode", "weather"}) => (reqCtx # "ctx")

\* C10: once cancellation has fired the Poller eventually reaches Stopped
\* (collaborator calls return, the select is fair to ctx.Done()), and Stopped
\* is terminal.
C10_EventuallyStopped ==
    /\ (cancelled /\ pc \in PollerPcs) ~> (pc = "stopped")
    /\ [][pc = "stopped" => pc' = "stopped"]_vars

====
